---- MODULE Spec2Model ----
(***************************************************************************)
(* Kirchhoff circuit engine of electric_circuits: the wiring of branches   *)
(* (Wire) and nodes (Junction), the effective/null classification, the     *)
(* loop finder, the first-law and second-law equation builders, and the    *)
(* event-driven stepper Circuit.solve.                                     *)
(*                                                                         *)
(* Three specifications share the variables:                               *)
(*   Spec       wiring followed by classification and equation assembly    *)
(*              (the assembly that opens every sub-interval of solve);     *)
(*   SpecSolve  wiring, event registration and the whole of solve;         *)
(*   SpecRing   the loop finder and the equation builders applied to       *)
(*              rings of 2..MaxRing wires.                                 *)
(*                                                                         *)
(* Python sets are iterated in an order the language leaves open.  Every   *)
(* iteration over a set takes its order from a sequence drawn with \E.     *)
(***************************************************************************)
EXTENDS Integers, Sequences, FiniteSets, TLC

\* ---------------------------------------------------------------- bounds
\* Wire objects the caller constructs before wiring, in Spec.
AsmWires == 3
\* Wire objects the caller constructs before wiring, in SpecSolve.
SolveWires == 2
\* Wires made by Earth.get_wire, in SpecSolve.
MaxEarthWires == 1
\* Junction objects the caller constructs (the earth comes with the Circuit).
MaxJunctions == 1
\* Calls of Circuit.connect before solve, in SpecSolve.
MaxConnects == 2
\* Calls of Circuit.add_event before solve.
MaxEvents == 2
\* The event callbacks toggle the switches of wires 1..MaxSwitched.
MaxSwitched == 1
\* Largest charge or current value the integrator hands back.
MaxCharge == 1
\* The largest ring of wires SpecRing starts from.
MaxRing == 4
\* The end time handed to solve.
EndTime == 2
\* Event times run from 0 to MaxTime.
MaxTime == 3

\* ------------------------------------------------------------- universe
MaxMade == IF AsmWires > SolveWires + MaxEarthWires THEN AsmWires
           ELSE SolveWires + MaxEarthWires
MaxWireId == IF MaxRing > MaxMade THEN MaxRing ELSE MaxMade
WireIds == 1..MaxWireId
\* The earth is junction 0; the caller's junctions are 1..MaxJunctions.
Earth == 0
Junctions == 0..MaxJunctions
\* The junctions of SpecRing: the earth and MaxRing - 1 junctions more.
RingJunctions == 0..(MaxRing - 1)
\* Wire.__init__ gives every wire two fresh Junction() objects of its own;
\* they have no wires, and nothing but the wire refers to them.
StartPlaceholder(w) == 0 - (2 * w)
EndPlaceholder(w) == 0 - (2 * w + 1)
AllJunctions ==
    Junctions \cup {StartPlaceholder(w) : w \in WireIds}
              \cup {EndPlaceholder(w) : w \in WireIds}
Times == 0..MaxTime

VARIABLES
    made,               \* the Wire objects constructed so far
    inductive,          \* wire.inductor.is_not_null()
    closed,             \* wire.switch.is_closed
    starting_junction,  \* wire.starting_junction
    ending_junction,    \* wire.ending_junction
    jwires,             \* junction.wires (Junction.__wires)
    cwires,             \* circuit.wires
    cjunctions,         \* circuit.junctions
    lastConnect,        \* the last Circuit.connect call and how it ended
    pc,                 \* where the caller / solve stands
    failure,            \* the exception that ended solve ("" when none)
    effective_wires,    \* circuit.effective_wires
    null_wires,         \* circuit.null_wires
    first_law,          \* the list __first_law_wires returned
    second_law,         \* the list __second_law_wires returned
    nconnects,          \* Circuit.connect calls made (bounded in SpecSolve)
    events,             \* circuit.events: time -> list of callbacks
    nevents,            \* add_event calls made: the next callback's identity
    end_time,           \* solve's end
    resolution,         \* solve's resolution
    split,              \* the list __split_events returned
    idx,                \* the sub-interval solve's loop is in (0 before it)
    steps,              \* the sample count of that sub-interval
    t,                  \* circuit.t, each sample a fraction <<num, den>>
    wires,              \* solve's local list of the effective wires
    q,                  \* wire.q
    dq_dt,              \* wire.dq_dt
    d2q_dt2,            \* wire.d2q_dt2
    potential,          \* junction.potential
    earth_t,            \* circuit.earth.t
    potential_drop,     \* wire.potential_drop
    trace,              \* log: the steps solve has taken, in order
    offsets             \* log: len(circuit.t) when each sub-interval began

topoVars == <<made, inductive, closed, starting_junction, ending_junction,
              jwires, cwires, cjunctions, lastConnect>>
asmVars == <<effective_wires, null_wires, first_law, second_law>>
eventVars == <<events, nevents>>
seriesVars == <<t, q, dq_dt, d2q_dt2>>
postVars == <<potential, earth_t, potential_drop>>
loopVars == <<end_time, resolution, split, idx, steps, wires, trace, offsets>>
solveVars == <<end_time, resolution, split, idx, steps, t, wires, q, dq_dt,
               d2q_dt2, potential, earth_t, potential_drop, trace, offsets>>
vars == <<made, inductive, closed, starting_junction, ending_junction,
          jwires, cwires, cjunctions, lastConnect, pc, failure,
          effective_wires, null_wires, first_law, second_law,
          nconnects, events, nevents, end_time, resolution, split, idx, steps,
          t, wires, q, dq_dt, d2q_dt2, potential, earth_t, potential_drop,
          trace, offsets>>

\* ---------------------------------------------------------------- helpers
\* The sequences that list every element of S once: the orders in which a
\* Python set holding S may be iterated.
Orders(S) ==
    {s \in [1..Cardinality(S) -> S] :
        \A i, k \in 1..Cardinality(S) : i # k => s[i] # s[k]}

\* The elements of S in the order they have in the sequence order.
IterOrder(S, order) == SelectSeq(order, LAMBDA x : x \in S)

SeqToSet(s) == {s[i] : i \in 1..Len(s)}

\* ------------------------------------------------------------------ wire.py
\* Junction.wires; a wire's own placeholder junctions hold no wires.
JWires(j) == IF j \in DOMAIN jwires THEN jwires[j] ELSE {}

JunctionIsNull(j) == Cardinality(JWires(j)) = 0

JunctionIsSingular(j) == Cardinality(JWires(j)) = 1

other_wires(j, w) == JWires(j) \ {w}

is_null(w) ==
    \/ ~closed[w]
    \/ JunctionIsNull(starting_junction[w])
    \/ JunctionIsNull(ending_junction[w])
    \/ JunctionIsSingular(starting_junction[w])
    \/ JunctionIsSingular(ending_junction[w])

\* The variant of Wire.other_junction that answers the starting junction
\* whichever terminal it is asked about.
other_junction_start(w, j) == starting_junction[w]

\* Wire.other_junction for a junction that is one of the wire's terminals.
other_junction(w, j) ==
    IF j = starting_junction[w] THEN ending_junction[w] ELSE starting_junction[w]

\* Wire.connect raises when neither terminal is a null junction.
WireIsFull(w) ==
    /\ ~JunctionIsNull(starting_junction[w])
    /\ ~JunctionIsNull(ending_junction[w])

\* Whether a wire has both terminals wired to junctions of the caller.
HasTwoTerminals(w) ==
    /\ starting_junction[w] \in Junctions
    /\ ending_junction[w] \in Junctions

\* ---------------------------------------------------------- signed_wires.py
\* A SignedWires object: the list of wires and the list of their signs.
EmptySignedWires == [wires |-> <<>>, signs |-> <<>>]

SignedAppend(sw, w, sign) ==
    [wires |-> Append(sw.wires, w), signs |-> Append(sw.signs, sign)]

WiresOf(sw) == SeqToSet(sw.wires)

\* --------------------------------------------------------------- loop finder
\* Circuit.__loops.  todo is what is left of the iteration over
\* current_junction.other_wires(current_wire), in the order that `order`
\* gives the set.  The result lists the loops in the order the code appends
\* them; err says that the walk raised CircuitError (a wire met at a junction
\* that is neither of its terminals, or a wire appended twice to the path).
RECURSIVE Loops(_, _, _, _, _, _)
Loops(todo, endpoint, current_junction, loop_path, parsed_junctions, order) ==
    IF todo = <<>> THEN [loops |-> <<>>, err |-> FALSE]
    ELSE
      LET new_wire == Head(todo)
          rest == Loops(Tail(todo), endpoint, current_junction, loop_path,
                        parsed_junctions, order)
      IN
      IF is_null(new_wire) THEN rest
      ELSE IF \/ current_junction \notin {starting_junction[new_wire],
                                         ending_junction[new_wire]}
              \/ new_wire \in WiresOf(loop_path)
      THEN [loops |-> <<>>, err |-> TRUE]
      ELSE
        LET sign == IF current_junction = starting_junction[new_wire] THEN 1 ELSE -1
            new_loop_path == SignedAppend(loop_path, new_wire, sign)
            next_junction == other_junction(new_wire, current_junction)
        IN
        IF next_junction = endpoint
        THEN [loops |-> <<new_loop_path>> \o rest.loops, err |-> rest.err]
        ELSE IF next_junction \in parsed_junctions THEN rest
        ELSE
          LET sub == Loops(IterOrder(other_wires(next_junction, new_wire), order),
                           endpoint, next_junction, new_loop_path,
                           parsed_junctions \cup {next_junction}, order)
          IN [loops |-> sub.loops \o rest.loops, err |-> sub.err \/ rest.err]

\* Circuit.__get_loops for a wire that is not null.
get_loops(main_wire, order) ==
    Loops(IterOrder(other_wires(ending_junction[main_wire], main_wire), order),
          starting_junction[main_wire], ending_junction[main_wire],
          SignedAppend(EmptySignedWires, main_wire, 1),
          {ending_junction[main_wire]}, order)

\* Any one iteration order: what get_loops finds does not depend on it as a
\* set, only the order of the list does.
SomeOrder == CHOOSE o \in Orders(WireIds) : TRUE

\* --------------------------------------------------------------- classification
\* Circuit.__calculate_effective_wires: the wires it puts in effective_wires.
EffectiveNow ==
    {w \in cwires : ~is_null(w) /\ Len(get_loops(w, SomeOrder).loops) # 0}

\* Whether __calculate_effective_wires raises: get_loops raises for a wire
\* that is not null.
ClassifyRaises ==
    \E w \in cwires : ~is_null(w) /\ get_loops(w, SomeOrder).err

\* ----------------------------------------------------------- first-law builder
SymmetricDifference(a, b) == (a \ b) \cup (b \ a)

\* The first-law equation of a junction: its wires that are not in null_wires,
\* each with +1 when the junction is the wire's starting junction, else -1.
\* The order of the wires inside one equation is the set's; nothing reads it,
\* and one order stands for all.
JunctionEquation(junction, junction_wires) ==
    LET ws == IterOrder(junction_wires, SomeOrder)
    IN [wires |-> ws,
        signs |-> [i \in 1..Len(ws) |->
                      IF junction = starting_junction[ws[i]] THEN 1 ELSE -1]]

\* The candidate set of a junction: its wires without the LCR wires when RC
\* and LCR wires meet there, all of them when all are LCR.
EffectiveJunctionWires(junction_wires) ==
    IF \A w \in junction_wires : inductive[w] THEN junction_wires
    ELSE {w \in junction_wires : ~inductive[w]}

\* The loop without the update of possible_wire_combos: only the candidate
\* sets themselves are remembered, never their symmetric differences.
RECURSIVE FirstLawLoopNoUpdate(_, _, _)
FirstLawLoopNoUpdate(todo, possible_wire_combos, equations) ==
    IF todo = <<>> THEN equations
    ELSE
      LET junction == Head(todo)
          junction_wires == JWires(junction) \ null_wires
          effective_junction_wires == EffectiveJunctionWires(junction_wires)
      IN
      IF Cardinality(junction_wires) \in {0, 1}
      THEN FirstLawLoopNoUpdate(Tail(todo), possible_wire_combos, equations)
      ELSE IF effective_junction_wires \in possible_wire_combos
      THEN FirstLawLoopNoUpdate(Tail(todo), possible_wire_combos, equations)
      ELSE
        FirstLawLoopNoUpdate(Tail(todo),
            possible_wire_combos \cup {effective_junction_wires},
            Append(equations, JunctionEquation(junction, junction_wires)))

\* The loop of Circuit.__first_law_wires over what is left of self.junctions.
RECURSIVE FirstLawLoop(_, _, _)
FirstLawLoop(todo, possible_wire_combos, equations) ==
    IF todo = <<>> THEN equations
    ELSE
      LET junction == Head(todo)
          junction_wires == JWires(junction) \ null_wires
          effective_junction_wires == EffectiveJunctionWires(junction_wires)
      IN
      IF Cardinality(junction_wires) \in {0, 1}
      THEN FirstLawLoop(Tail(todo), possible_wire_combos, equations)
      ELSE IF effective_junction_wires \in possible_wire_combos
      THEN FirstLawLoop(Tail(todo), possible_wire_combos, equations)
      ELSE
        LET added == possible_wire_combos \cup {effective_junction_wires}
            updated == added \cup
                {SymmetricDifference(wire_combo, effective_junction_wires) :
                    wire_combo \in added}
        IN FirstLawLoop(Tail(todo), updated,
               Append(equations, JunctionEquation(junction, junction_wires)))

\* Circuit.__first_law_wires with self.junctions iterated in junction_order.
first_law_wires(junction_order) ==
    FirstLawLoop(junction_order, {}, <<>>)

\* ---------------------------------------------------------- second-law builder
\* An inner loop that skips a loop as soon as one of its wires is parsed.
RECURSIVE SecondLawLoopsAnyParsed(_, _)
SecondLawLoopsAnyParsed(loops, acc) ==
    IF loops = <<>> THEN acc
    ELSE
      LET loop == Head(loops)
      IN IF WiresOf(loop) \cap acc.parsed_wires # {}
         THEN SecondLawLoopsAnyParsed(Tail(loops), acc)
         ELSE SecondLawLoopsAnyParsed(Tail(loops),
                  [parsed_wires |-> acc.parsed_wires \cup WiresOf(loop),
                   equations |-> Append(acc.equations, loop)])

\* The inner loop of Circuit.__second_law_wires over the loops of one wire.
RECURSIVE SecondLawLoops(_, _)
SecondLawLoops(loops, acc) ==
    IF loops = <<>> THEN acc
    ELSE
      LET loop == Head(loops)
      IN IF WiresOf(loop) \subseteq acc.parsed_wires
         THEN SecondLawLoops(Tail(loops), acc)
         ELSE SecondLawLoops(Tail(loops),
                  [parsed_wires |-> acc.parsed_wires \cup WiresOf(loop),
                   equations |-> Append(acc.equations, loop)])

\* The outer loop over what is left of self.effective_wires.
RECURSIVE SecondLawWires(_, _, _)
SecondLawWires(todo, acc, order) ==
    IF todo = <<>> THEN acc
    ELSE SecondLawWires(Tail(todo),
             SecondLawLoops(get_loops(Head(todo), order).loops, acc), order)

\* Circuit.__second_law_wires with self.effective_wires, and the wire sets of
\* the junctions the loop finder walks, iterated in `order`.
second_law_wires(order) ==
    SecondLawWires(IterOrder(effective_wires, order),
                   [parsed_wires |-> {}, equations |-> <<>>], order).equations

\* The assert that ends both builders.
EquationsAssert(equations) ==
    \A i \in 1..Len(equations) : WiresOf(equations[i]) \subseteq effective_wires

\* ------------------------------------------------------------------- wiring
NoConnect == [raised |-> FALSE, twoTerminals |-> FALSE]

InitWiring(n) ==
    /\ made = 1..n
    /\ inductive \in [WireIds -> BOOLEAN]
    /\ \A w \in WireIds \ made : ~inductive[w]
    \* wire ids are labels: the LCR wires are the ones constructed last
    /\ \A w \in made : inductive[w] => \A v \in made : v > w => inductive[v]
    /\ closed = [w \in WireIds |-> TRUE]
    /\ starting_junction = [w \in WireIds |-> StartPlaceholder(w)]
    /\ ending_junction = [w \in WireIds |-> EndPlaceholder(w)]
    /\ jwires = [j \in Junctions |-> {}]
    /\ cwires = {}
    /\ cjunctions = {Earth}
    /\ lastConnect = NoConnect
    /\ pc = "wiring"
    /\ failure = ""
    /\ effective_wires = {}
    /\ null_wires = {}
    /\ first_law = <<>>
    /\ second_law = <<>>
    /\ nconnects = 0
    /\ events = [time \in Times |-> <<>>]
    /\ nevents = 0
    /\ end_time = 0
    /\ resolution = 0
    /\ split = <<>>
    /\ idx = 0
    /\ steps = 0
    /\ t = <<>>
    /\ wires = <<>>
    /\ q = [w \in WireIds |-> <<>>]
    /\ dq_dt = [w \in WireIds |-> <<>>]
    /\ d2q_dt2 = [w \in WireIds |-> <<>>]
    /\ potential = [j \in AllJunctions |-> <<>>]
    /\ earth_t = <<>>
    /\ potential_drop = [w \in WireIds |-> <<>>]
    /\ trace = <<>>
    /\ offsets = <<>>

\* Circuit.connect(junction, wires).  junction.connect(wires) puts every wire
\* in the junction's set; then wire.connect(junction) runs for the wires in
\* the set's iteration order and raises CircuitError at the first wire that
\* has no null terminal left: `connected` are the wires iterated before it.
Connect(junction, ws) ==
    /\ pc = "wiring"
    /\ ws # {}
    /\ ws \subseteq made
    /\ LET full == {w \in ws : WireIsFull(w)}
       IN \E connected \in SUBSET (ws \ full) :
            /\ full = {} => connected = ws
            /\ cjunctions' = cjunctions \cup {junction}
            /\ cwires' = cwires \cup ws
            /\ jwires' = [jwires EXCEPT ![junction] = @ \cup ws]
            /\ starting_junction' =
                 [w \in WireIds |->
                    IF w \in connected /\ JunctionIsNull(starting_junction[w])
                    THEN junction ELSE starting_junction[w]]
            /\ ending_junction' =
                 [w \in WireIds |->
                    IF w \in connected /\ ~JunctionIsNull(starting_junction[w])
                    THEN junction ELSE ending_junction[w]]
            /\ lastConnect' =
                 [raised |-> full # {},
                  twoTerminals |-> \E w \in ws : HasTwoTerminals(w)]
    /\ UNCHANGED <<made, inductive, closed, pc, failure, asmVars, eventVars,
                   solveVars>>

\* Circuit.connect in Spec: any number of calls.
AsmConnect(junction, ws) ==
    /\ Connect(junction, ws)
    /\ UNCHANGED nconnects

\* wire.switch.toggle(), called by the caller before solve.
Toggle(w) ==
    /\ pc = "wiring"
    /\ w \in made
    /\ closed' = [closed EXCEPT ![w] = ~@]
    /\ UNCHANGED <<made, inductive, starting_junction, ending_junction, jwires,
                   cwires, cjunctions, lastConnect, pc, failure, asmVars,
                   nconnects, eventVars, solveVars>>

\* ----------------------------------------------------------------- assembly
\* solve's first statements up to the first equation assembly:
\* __calculate_effective_wires, then __first_law_wires, then
\* __second_law_wires.
AsmClassify ==
    /\ pc = "wiring"
    /\ IF ClassifyRaises
       THEN /\ pc' = "failed"
            /\ failure' = "CircuitError"
            /\ UNCHANGED asmVars
       ELSE /\ pc' = "first_law"
            /\ effective_wires' = EffectiveNow
            /\ null_wires' = cwires \ EffectiveNow
            /\ UNCHANGED <<failure, first_law, second_law>>
    /\ UNCHANGED <<topoVars, nconnects, eventVars, solveVars>>

AsmFirstLaw ==
    /\ pc = "first_law"
    /\ \E junction_order \in Orders(cjunctions) :
         LET equations == first_law_wires(junction_order)
         IN /\ first_law' = equations
            /\ IF EquationsAssert(equations)
               THEN pc' = "second_law" /\ UNCHANGED failure
               ELSE pc' = "failed" /\ failure' = "AssertionError"
    /\ UNCHANGED <<topoVars, effective_wires, null_wires, second_law,
                   nconnects, eventVars, solveVars>>

AsmSecondLaw ==
    /\ pc = "second_law"
    /\ \E order \in Orders(made) :
         LET equations == second_law_wires(order)
         IN /\ second_law' = equations
            /\ IF EquationsAssert(equations)
               THEN pc' = "assembled" /\ UNCHANGED failure
               ELSE pc' = "failed" /\ failure' = "AssertionError"
    /\ UNCHANGED <<topoVars, effective_wires, null_wires, first_law,
                   nconnects, eventVars, solveVars>>

Init == InitWiring(AsmWires)

Next ==
    \/ \E j \in Junctions, ws \in SUBSET WireIds : AsmConnect(j, ws)
    \/ \E w \in WireIds : Toggle(w)
    \/ AsmClassify
    \/ AsmFirstLaw
    \/ AsmSecondLaw

Spec == Init /\ [][Next]_vars

\* ------------------------------------------------------------ the components
\* The wires of the model, as the caller builds them: wire w has a battery of
\* emf w, net resistance 1, a capacitor of capacitance 1 and an inductor of
\* inductance 1 when it is an LCR wire; wire 1 starts with charge 1.
Emf(w) == w
NetResistance(w) == 1
InitCharge(w) == IF w = 1 THEN 1 ELSE 0

\* The potential drop of a wire at sample i, as __calculate_potentials and
\* the post-processing of solve compute it.
Drop(w, i) ==
    Emf(w) - dq_dt[w][i] * NetResistance(w) - q[w][i]
        - (IF inductive[w] THEN d2q_dt2[w][i] ELSE 0)

\* Whether the series that Drop(w, i) reads hold i samples.
DropReadable(w, n) ==
    /\ Len(q[w]) >= n
    /\ Len(dq_dt[w]) >= n
    /\ inductive[w] => Len(d2q_dt2[w]) >= n

\* What linalg.solve hands __derivatives for a wire: the current of an RC
\* wire, the current's derivative of an LCR wire.  scipy computes it from the
\* accepted equations; this stand-in is the solution that makes the
\* potential drop of every integrated wire zero, which satisfies every
\* second-law equation.
SolvedRate(w, charge, current) ==
    IF inductive[w] THEN Emf(w) - charge - current ELSE Emf(w) - charge

\* -------------------------------------------------------------- the schedule
\* add_event with the callback put at the front of the list of its time.
add_event_front(ev, time, callback) ==
    IF ev[time] # <<>>
    THEN [ev EXCEPT ![time] = <<callback>> \o @]
    ELSE [ev EXCEPT ![time] = <<callback>>]

\* Circuit.add_event: the list of the time gets the callback at its end.
add_event(ev, time, callback) ==
    IF ev[time] # <<>>
    THEN [ev EXCEPT ![time] = Append(@, callback)]
    ELSE [ev EXCEPT ![time] = <<callback>>]

RECURSIVE Sorted(_)
Sorted(S) ==
    IF S = {} THEN <<>>
    ELSE LET m == CHOOSE x \in S : \A y \in S : x <= y
         IN <<m>> \o Sorted(S \ {m})

\* Circuit.__split_events raises IndexError (times[-1]) when events are
\* registered and none is at or before end.
SplitRaises(end) ==
    /\ \E time \in Times : events[time] # <<>>
    /\ \A time \in Times : events[time] # <<>> => time > end

\* Circuit.__split_events: the sub-intervals with the callbacks to run at the
\* end of each; the last one runs __set_earth_potential and
\* __calculate_potentials (final).
split_events(end) ==
    IF \A time \in Times : events[time] = <<>>
    THEN << [start |-> 0, end |-> end, callbacks |-> <<>>, final |-> TRUE] >>
    ELSE
      LET times == Sorted({time \in Times : events[time] # <<>> /\ time <= end})
      IN [i \in 1..Len(times) |->
            [start |-> IF i = 1 THEN 0 ELSE times[i - 1],
             end |-> times[i],
             callbacks |-> events[times[i]],
             final |-> FALSE]]
         \o << [start |-> times[Len(times)], end |-> end,
                callbacks |-> <<>>, final |-> TRUE] >>

\* The local time grid of a sub-interval: n samples from a to b.
Grid(a, b, n) ==
    [i \in 1..n |-> <<a * (n - 1) + (b - a) * (i - 1), n - 1>>]

\* --------------------------------------------------------------- integration
\* The slot of wires[k] in the state vector: one slot for an RC wire, two
\* for an LCR wire.
RECURSIVE SlotIndex(_)
SlotIndex(k) ==
    IF k = 1 THEN 1
    ELSE SlotIndex(k - 1) + (IF inductive[wires[k - 1]] THEN 2 ELSE 1)

NSlots == SlotIndex(Len(wires) + 1) - 1

Last(s) == s[Len(s)]

\* A start charge that forgets the stored series.
StartChargeDeclared(w) == InitCharge(w)

\* The charge a sub-interval starts a wire with.
StartCharge(w) == IF Len(q[w]) # 0 THEN Last(q[w]) ELSE InitCharge(w)

\* The current a sub-interval starts an LCR wire with.
StartCurrent(w) == IF Len(dq_dt[w]) # 0 THEN Last(dq_dt[w]) ELSE 0

\* init_conditions, slot by slot.
init_conditions ==
    [k \in 1..NSlots |->
        LET i == CHOOSE i \in 1..Len(wires) :
                    SlotIndex(i) <= k /\ k < SlotIndex(i + 1)
        IN IF k = SlotIndex(i) THEN StartCharge(wires[i])
           ELSE StartCurrent(wires[i])]

\* What odeint hands back for one slot: its first sample is the initial
\* condition; the later samples are the integrator's, here one value held.
Solution(y0, target, n) == [i \in 1..n |-> IF i = 1 THEN y0 ELSE target]

\* The samples the save loop of solve appends to wire.q of wires[k].
SavedCharge(sol, k) == sol[SlotIndex(k)]

\* The samples it appends to wire.dq_dt: sol_derivatives[index].
SavedRate(sol, k, n) ==
    LET w == wires[k]
        index == SlotIndex(k)
    IN IF inductive[w] THEN sol[index + 1]
       ELSE [i \in 1..n |-> SolvedRate(w, sol[index][i], 0)]

\* The samples it appends to wire.d2q_dt2 of an LCR wire.
SavedSecond(sol, k, n) ==
    LET w == wires[k]
        index == SlotIndex(k)
    IN [i \in 1..n |-> SolvedRate(w, sol[index][i], sol[index + 1][i])]

\* A null-wire extension that holds no charge.
NullChargeZero(w, n) == [i \in 1..n |-> 0]

\* What the loop over null_wires appends to a null wire's series.
NullCharge(w, n) == [i \in 1..n |-> StartCharge(w)]

\* A null-wire extension that is one sample short.
NullRateShort(w, n) == [i \in 1..(n - 1) |-> 0]

NullRate(w, n) == [i \in 1..n |-> 0]

PositionOf(w) == CHOOSE k \in 1..Len(wires) : wires[k] = w

\* ------------------------------------------------------ potential propagation
\* The order in which the wire set of a junction is iterated; the placeholder
\* junctions of a wire hold no wires.
JOrder(jorder, j) == IF j \in Junctions THEN jorder[j] ELSE <<>>

\* The samples __calculate_potentials appends to next_junction.potential.
NextPotential(pot, current_junction, wire) ==
    [i \in 1..Len(t) |->
        pot[current_junction][i]
          + (IF current_junction = starting_junction[wire] THEN 1 ELSE -1)
            * Drop(wire, i)]

\* Circuit.__calculate_potentials.  st holds the junctions' potential lists,
\* the `calculated` list and the exception raised, if any.  CalcWires is the
\* first loop (over current_junction.wires), CalcRest the second (over
\* not_calc_wires).
RECURSIVE CalcWires(_, _, _, _)
CalcWires(todo, current_junction, st, not_calc_wires) ==
    IF todo = <<>> \/ st.err # ""
    THEN [st |-> st, not_calc_wires |-> not_calc_wires]
    ELSE
      LET wire == Head(todo)
      IN
      IF current_junction \notin {starting_junction[wire], ending_junction[wire]}
      THEN [st |-> [st EXCEPT !.err = "CircuitError"],
            not_calc_wires |-> not_calc_wires]
      ELSE
        LET next_junction == other_junction(wire, current_junction)
        IN
        IF next_junction \in st.calculated
        THEN CalcWires(Tail(todo), current_junction, st, not_calc_wires)
        ELSE IF /\ Len(t) > 0
                /\ \/ Len(st.potential[current_junction]) < Len(t)
                   \/ ~DropReadable(wire, Len(t))
        THEN [st |-> [st EXCEPT !.err = "IndexError"],
              not_calc_wires |-> not_calc_wires]
        ELSE CalcWires(Tail(todo), current_junction,
                 [potential |->
                     [st.potential EXCEPT ![next_junction] =
                         @ \o NextPotential(st.potential, current_junction, wire)],
                  calculated |-> st.calculated \cup {next_junction},
                  err |-> ""],
                 Append(not_calc_wires, wire))

RECURSIVE CalcPotentials(_, _, _)
RECURSIVE CalcRest(_, _, _, _)
CalcRest(todo, current_junction, st, jorder) ==
    IF todo = <<>> \/ st.err # "" THEN st
    ELSE CalcRest(Tail(todo), current_junction,
             CalcPotentials(other_junction(Head(todo), current_junction),
                            st, jorder),
             jorder)

CalcPotentials(current_junction, st, jorder) ==
    LET first == CalcWires(IterOrder(JWires(current_junction),
                                     JOrder(jorder, current_junction)),
                           current_junction, st, <<>>)
    IN CalcRest(first.not_calc_wires, current_junction, first.st, jorder)

\* Circuit.__set_earth_potential: the time list handed over by
\* __split_events, and one zero per entry.
EarthTimes == [i \in 1..resolution |-> <<end_time * (i - 1), resolution - 1>>]

EarthZeros == [i \in 1..resolution |-> 0]

\* One iteration order for the wire set of every junction.
JunctionOrders ==
    {jorder \in [Junctions -> UNION {Orders(jwires[j]) : j \in Junctions}] :
        \A j \in Junctions : jorder[j] \in Orders(jwires[j])}

\* The two calls that end the final sub-interval.
FinalCalls(jorder) ==
    CalcPotentials(Earth,
        [potential |-> [potential EXCEPT ![Earth] = EarthZeros],
         calculated |-> {},
         err |-> ""],
        jorder)

\* The event callbacks are switch toggles, run in the list's order.
RECURSIVE RunCallbacks(_, _)
RunCallbacks(callbacks, cl) ==
    IF callbacks = <<>> THEN cl
    ELSE RunCallbacks(Tail(callbacks),
                      [cl EXCEPT ![Head(callbacks).wire] = ~@])

Step(op, n, time) == [op |-> op, n |-> n, time |-> time]

CallSteps(callbacks, time) ==
    [i \in 1..Len(callbacks) |-> Step("call", callbacks[i].id, time)]

\* ---------------------------------------------------- the caller, before solve
\* Circuit.connect in SpecSolve: at most MaxConnects calls.
SolveConnect(junction, ws) ==
    /\ nconnects < MaxConnects
    /\ Connect(junction, ws)
    /\ nconnects' = nconnects + 1

\* Earth.get_wire(resistance): a new RC Wire, connected to the earth on both
\* sides (the earth's set and the wire's starting junction), and not given
\* to Circuit.connect, so not in circuit.wires.
GetWire ==
    /\ pc = "wiring"
    /\ Cardinality(made) < SolveWires + MaxEarthWires
    /\ LET w == Cardinality(made) + 1
       IN /\ made' = made \cup {w}
          /\ inductive' = [inductive EXCEPT ![w] = FALSE]
          /\ starting_junction' = [starting_junction EXCEPT ![w] = Earth]
          /\ jwires' = [jwires EXCEPT ![Earth] = @ \cup {w}]
    /\ UNCHANGED <<closed, ending_junction, cwires, cjunctions, lastConnect,
                   pc, failure, asmVars, nconnects, eventVars, solveVars>>

\* Circuit.add_event(time, wire.switch.toggle); the callback carries the
\* serial number of its registration.
AddEvent(time, w) ==
    /\ pc = "wiring"
    /\ nevents < MaxEvents
    /\ w \in made
    /\ events' = add_event(events, time, [id |-> nevents + 1, wire |-> w])
    /\ nevents' = nevents + 1
    /\ UNCHANGED <<topoVars, pc, failure, asmVars, nconnects, solveVars>>

\* The resolutions handed to solve.
Resolutions == {EndTime + 1, 2 * EndTime + 1}

\* Circuit.solve(end, resolution) is called.
SolveCall(end, res) ==
    /\ pc = "wiring"
    /\ end_time' = end
    /\ resolution' = res
    /\ pc' = "classify"
    /\ UNCHANGED <<topoVars, failure, asmVars, nconnects, eventVars, split,
                   idx, steps, t, wires, q, dq_dt, d2q_dt2, potential,
                   earth_t, potential_drop, trace, offsets>>

\* ----------------------------------------------------------------- solve
\* A loop that classifies at the start of solve only and keeps that
\* classification for the later sub-intervals.
ClassifyOnce ==
    /\ pc = "classify"
    /\ trace' = Append(trace, Step("classify", idx, 0))
    /\ IF ClassifyRaises
       THEN /\ pc' = "failed"
            /\ failure' = "CircuitError"
            /\ UNCHANGED <<effective_wires, null_wires, wires>>
       ELSE /\ effective_wires' = (IF idx = 0 THEN EffectiveNow
                                   ELSE effective_wires)
            /\ null_wires' = (IF idx = 0 THEN cwires \ EffectiveNow
                              ELSE null_wires)
            /\ wires' \in Orders(effective_wires')
            /\ pc' = IF split = <<>> THEN "split"
                     ELSE IF idx < Len(split) THEN "interval" ELSE "post"
            /\ UNCHANGED failure
    /\ UNCHANGED <<topoVars, first_law, second_law, nconnects, eventVars,
                   end_time, resolution, split, idx, steps, seriesVars,
                   postVars, offsets>>

\* __calculate_effective_wires and the sample() that orders the effective
\* wires: at the start of solve and at the end of every sub-interval.
Classify ==
    /\ pc = "classify"
    /\ trace' = Append(trace, Step("classify", idx, 0))
    /\ IF ClassifyRaises
       THEN /\ pc' = "failed"
            /\ failure' = "CircuitError"
            /\ UNCHANGED <<effective_wires, null_wires, wires>>
       ELSE /\ effective_wires' = EffectiveNow
            /\ null_wires' = cwires \ EffectiveNow
            /\ wires' \in Orders(EffectiveNow)
            /\ pc' = IF split = <<>> THEN "split"
                     ELSE IF idx < Len(split) THEN "interval" ELSE "post"
            /\ UNCHANGED failure
    /\ UNCHANGED <<topoVars, first_law, second_law, nconnects, eventVars,
                   end_time, resolution, split, idx, steps, seriesVars,
                   postVars, offsets>>

\* __split_events(end, resolution).
Split ==
    /\ pc = "split"
    /\ trace' = Append(trace, Step("split", 0, 0))
    /\ IF SplitRaises(end_time)
       THEN /\ pc' = "failed"
            /\ failure' = "IndexError"
            /\ UNCHANGED split
       ELSE /\ split' = split_events(end_time)
            /\ pc' = "interval"
            /\ UNCHANGED failure
    /\ UNCHANGED <<topoVars, asmVars, nconnects, eventVars, end_time,
                   resolution, idx, steps, wires, seriesVars, postVars,
                   offsets>>

\* The head of the loop body: steps and the sub-interval's time grid.
IntervalStart ==
    /\ pc = "interval"
    /\ LET event == split[idx + 1]
           n == (resolution * (event.end - event.start)) \div end_time
       IN /\ idx' = idx + 1
          /\ steps' = n
          /\ trace' = Append(trace, Step("grid", idx + 1, event.start))
          /\ IF n = 1
             THEN /\ pc' = "failed"
                  /\ failure' = "ZeroDivisionError"
                  /\ UNCHANGED <<t, offsets>>
             ELSE /\ t' = t \o Grid(event.start, event.end, n)
                  /\ offsets' = Append(offsets, Len(t))
                  /\ pc' = "assemble"
                  /\ UNCHANGED failure
    /\ UNCHANGED <<topoVars, asmVars, nconnects, eventVars, end_time,
                   resolution, split, wires, q, dq_dt, d2q_dt2, postVars>>

\* __first_law_wires, then __second_law_wires.
Assemble ==
    /\ pc = "assemble"
    /\ trace' = Append(trace, Step("assemble", idx, 0))
    /\ \E junction_order \in Orders(cjunctions), order \in Orders(made) :
         LET first == first_law_wires(junction_order)
             second == second_law_wires(order)
         IN /\ first_law' = first
            /\ IF ~EquationsAssert(first)
               THEN /\ pc' = "failed"
                    /\ failure' = "AssertionError"
                    /\ UNCHANGED second_law
               ELSE /\ second_law' = second
                    /\ IF EquationsAssert(second)
                       THEN pc' = "integrate" /\ UNCHANGED failure
                       ELSE pc' = "failed" /\ failure' = "AssertionError"
    /\ UNCHANGED <<topoVars, effective_wires, null_wires, nconnects,
                   eventVars, end_time, resolution, split, idx, steps, wires,
                   seriesVars, postVars, offsets>>

\* The series after the save loop over `wires` (when `integrated`) and the
\* loop over null_wires.
ExtendedCharge(sol, integrated) ==
    [w \in WireIds |->
        IF integrated /\ w \in SeqToSet(wires)
        THEN q[w] \o SavedCharge(sol, PositionOf(w))
        ELSE IF w \in null_wires THEN q[w] \o NullCharge(w, steps)
        ELSE q[w]]

ExtendedRate(sol, integrated) ==
    [w \in WireIds |->
        IF integrated /\ w \in SeqToSet(wires)
        THEN dq_dt[w] \o SavedRate(sol, PositionOf(w), steps)
        ELSE IF w \in null_wires THEN dq_dt[w] \o NullRate(w, steps)
        ELSE dq_dt[w]]

ExtendedSecond(sol, integrated) ==
    [w \in WireIds |->
        IF ~inductive[w] THEN d2q_dt2[w]
        ELSE IF integrated /\ w \in SeqToSet(wires)
        THEN d2q_dt2[w] \o SavedSecond(sol, PositionOf(w), steps)
        ELSE IF w \in null_wires THEN d2q_dt2[w] \o NullRate(w, steps)
        ELSE d2q_dt2[w]]

\* init_conditions, odeint and the two save loops.  odeint raises on an
\* empty grid, and linalg.solve (inside __derivatives) when the matrix of
\* the accepted equations is not square.
Integrate ==
    /\ pc = "integrate"
    /\ IF first_law # <<>> /\ second_law # <<>>
       THEN IF steps = 0
            THEN /\ pc' = "failed"
                 /\ failure' = "EmptyGridError"
                 /\ UNCHANGED <<q, dq_dt, d2q_dt2, trace>>
            ELSE IF Len(first_law) + Len(second_law) # Len(wires)
            THEN /\ pc' = "failed"
                 /\ failure' = "ValueError"
                 /\ UNCHANGED <<q, dq_dt, d2q_dt2, trace>>
            ELSE \E target \in 0..MaxCharge :
                   LET sol == [k \in 1..NSlots |->
                                 Solution(init_conditions[k], target, steps)]
                   IN /\ q' = ExtendedCharge(sol, TRUE)
                      /\ dq_dt' = ExtendedRate(sol, TRUE)
                      /\ d2q_dt2' = ExtendedSecond(sol, TRUE)
                      /\ trace' = Append(trace, Step("store", idx, split[idx].end))
                      /\ pc' = "callbacks"
                      /\ UNCHANGED failure
       ELSE /\ q' = ExtendedCharge(<<>>, FALSE)
            /\ dq_dt' = ExtendedRate(<<>>, FALSE)
            /\ d2q_dt2' = ExtendedSecond(<<>>, FALSE)
            /\ trace' = Append(trace, Step("store", idx, split[idx].end))
            /\ pc' = "callbacks"
            /\ UNCHANGED failure
    \* first_law and second_law are locals of the loop body: dead from here on
    /\ first_law' = <<>>
    /\ second_law' = <<>>
    /\ UNCHANGED <<topoVars, effective_wires, null_wires, nconnects, eventVars,
                   end_time, resolution, split, idx, steps, t, wires, postVars,
                   offsets>>

\* "call event functions": the callbacks of the sub-interval's end, or, in
\* the final sub-interval, __set_earth_potential and __calculate_potentials.
RunEvents ==
    /\ pc = "callbacks"
    /\ LET event == split[idx]
       IN IF event.final
          THEN \E jorder \in JunctionOrders :
                 LET st == FinalCalls(jorder)
                 IN /\ earth_t' = EarthTimes
                    /\ potential' = st.potential
                    /\ trace' = Append(trace, Step("potentials", idx, event.end))
                    /\ IF st.err # ""
                       THEN pc' = "failed" /\ failure' = st.err
                       ELSE pc' = "classify" /\ UNCHANGED failure
                    /\ UNCHANGED closed
          ELSE /\ closed' = RunCallbacks(event.callbacks, closed)
               /\ trace' = trace \o CallSteps(event.callbacks, event.end)
               /\ pc' = "classify"
               /\ UNCHANGED <<failure, earth_t, potential>>
    /\ UNCHANGED <<made, inductive, starting_junction, ending_junction, jwires,
                   cwires, cjunctions, lastConnect, asmVars, nconnects,
                   eventVars, end_time, resolution, split, idx, steps, wires,
                   seriesVars, potential_drop, offsets>>

\* "calculate other quantities": the potential drop of every wire of the
\* circuit at every sample of circuit.t.
PostProcess ==
    /\ pc = "post"
    /\ trace' = Append(trace, Step("post", idx, 0))
    /\ IF \E w \in cwires : Len(t) > 0 /\ ~DropReadable(w, Len(t))
       THEN /\ pc' = "failed"
            /\ failure' = "IndexError"
            /\ UNCHANGED potential_drop
       ELSE /\ potential_drop' =
                 [w \in WireIds |->
                    IF w \in cwires
                    THEN potential_drop[w] \o [i \in 1..Len(t) |-> Drop(w, i)]
                    ELSE potential_drop[w]]
            /\ pc' = "done"
            /\ UNCHANGED failure
    /\ UNCHANGED <<topoVars, asmVars, nconnects, eventVars, end_time,
                   resolution, split, idx, steps, wires, seriesVars, potential,
                   earth_t, offsets>>

InitSolve == InitWiring(SolveWires)

NextSolve ==
    \/ \E j \in Junctions, ws \in SUBSET WireIds : SolveConnect(j, ws)
    \/ GetWire
    \/ \E time \in Times, w \in 1..MaxSwitched : AddEvent(time, w)
    \/ \E res \in Resolutions : SolveCall(EndTime, res)
    \/ Classify
    \/ Split
    \/ IntervalStart
    \/ Assemble
    \/ Integrate
    \/ RunEvents
    \/ PostProcess

SpecSolve == InitSolve /\ [][NextSolve]_vars

\* ------------------------------------------------------------------ rings
\* Wire.swap_junctions, called by the caller before solve.
SwapJunctions(w) ==
    /\ pc = "wiring"
    /\ w \in made
    /\ starting_junction' = [starting_junction EXCEPT ![w] = ending_junction[w]]
    /\ ending_junction' = [ending_junction EXCEPT ![w] = starting_junction[w]]
    /\ UNCHANGED <<made, inductive, closed, jwires, cwires, cjunctions,
                   lastConnect, pc, failure, asmVars, nconnects, eventVars,
                   solveVars>>

\* The ring of n wires: wire i joins junction i - 1 and junction i, the last
\* wire joins junction n - 1 and junction 0.
RingWiresAt(j, n) ==
    IF j >= n THEN {}
    ELSE {IF j = 0 THEN n ELSE j, j + 1}

\* The state after the caller built n wires and called
\* circuit.connect(junction j, {the two wires of j}) for j = 0, ..., n - 1:
\* a wire starts at the junction it was connected to first.
InitRing ==
    \E n \in 2..MaxRing :
        /\ made = 1..n
        /\ inductive \in [WireIds -> BOOLEAN]
        /\ \A w \in WireIds \ made : ~inductive[w]
        /\ closed = [w \in WireIds |-> TRUE]
        /\ starting_junction =
             [w \in WireIds |->
                IF w > n THEN StartPlaceholder(w)
                ELSE IF w = n THEN 0 ELSE w - 1]
        /\ ending_junction =
             [w \in WireIds |->
                IF w > n THEN EndPlaceholder(w)
                ELSE IF w = n THEN n - 1 ELSE w]
        /\ jwires = [j \in RingJunctions |-> RingWiresAt(j, n)]
        /\ cwires = 1..n
        /\ cjunctions = 0..(n - 1)
        /\ lastConnect = NoConnect
        /\ pc = "wiring"
        /\ failure = ""
        /\ effective_wires = {}
        /\ null_wires = {}
        /\ first_law = <<>>
        /\ second_law = <<>>
        /\ nconnects = 0
        /\ events = [time \in Times |-> <<>>]
        /\ nevents = 0
        /\ end_time = 0
        /\ resolution = 0
        /\ split = <<>>
        /\ idx = 0
        /\ steps = 0
        /\ t = <<>>
        /\ wires = <<>>
        /\ q = [w \in WireIds |-> <<>>]
        /\ dq_dt = [w \in WireIds |-> <<>>]
        /\ d2q_dt2 = [w \in WireIds |-> <<>>]
        /\ potential = [j \in AllJunctions |-> <<>>]
        /\ earth_t = <<>>
        /\ potential_drop = [w \in WireIds |-> <<>>]
        /\ trace = <<>>
        /\ offsets = <<>>

NextRing ==
    \/ \E w \in WireIds : Toggle(w)
    \/ \E w \in WireIds : SwapJunctions(w)
    \/ AsmClassify
    \/ AsmFirstLaw
    \/ AsmSecondLaw

SpecRing == InitRing /\ [][NextRing]_vars

\* ====================================================================== claims
\* ------------------------------------------------------------------------- C1
\* C1: once both builders have accepted their equations, the number of
\* first-law equations plus the number of second-law equations equals the
\* number of effective wires, for every topology, switch state and
\* iteration order.
C1_SquareSystem ==
    pc = "assembled" =>
        Len(first_law) + Len(second_law) = Cardinality(effective_wires)

\* ------------------------------------------------------------------------- C2
\* C2: in every sub-interval, every wire of a loop the loop finder returns
\* and of an accepted first-law or second-law equation is in
\* effective_wires, and the asserts of the two builders never fail.
C2_NullNeverInEquations ==
    /\ failure # "AssertionError"
    /\ pc \in {"assemble", "integrate"} =>
         \A w \in effective_wires :
           \A order \in Orders(made) :
             LET found == get_loops(w, order).loops
             IN \A i \in 1..Len(found) :
                  WiresOf(found[i]) \subseteq effective_wires
    /\ EquationsAssert(first_law)
    /\ EquationsAssert(second_law)

\* ------------------------------------------------------------------------- C3
IsPrefix(a, b) ==
    /\ Len(a) <= Len(b)
    /\ \A i \in 1..Len(a) : a[i] = b[i]

\* The samples of the sub-interval idx are stored (and idx > 0).
SamplesStored ==
    \/ pc \in {"callbacks", "post", "done"}
    \/ pc \in {"classify", "interval"} /\ idx > 0

LockStep ==
    \A w \in cwires : Len(q[w]) = Len(t) /\ Len(dq_dt[w]) = Len(t)

AppendOnly ==
    /\ IsPrefix(t, t')
    /\ \A w \in WireIds :
         /\ IsPrefix(q[w], q'[w])
         /\ IsPrefix(dq_dt[w], dq_dt'[w])
         /\ IsPrefix(d2q_dt2[w], d2q_dt2'[w])

\* C3: after every completed sub-interval and when solve returns, the charge
\* and charge-rate series of every wire of the circuit are as long as
\* circuit.t, and no step changes, removes or reorders a stored sample.
C3_LockStep == [][(SamplesStored' => LockStep') /\ AppendOnly]_vars

\* A run of two sub-intervals that returned, with a wire that was integrated
\* in the first and null in the second.
C3_Witness ==
    /\ pc = "done"
    /\ Len(offsets) >= 2
    /\ Len(t) > offsets[2]
    /\ \E w \in cwires :
         /\ w \in null_wires
         /\ Len(q[w]) = Len(t)
         /\ \E i \in 1..Len(dq_dt[w]) : dq_dt[w][i] # 0

\* ------------------------------------------------------------------------- C4
\* The junctions connected to the earth through wires.
RECURSIVE ConnectedTo(_)
ConnectedTo(S) ==
    LET more == {j \in Junctions :
                   \E k \in S : \E w \in JWires(k) :
                      {starting_junction[w], ending_junction[w]} = {j, k}}
    IN IF more \subseteq S THEN S ELSE ConnectedTo(S \cup more)

\* C4: when solve has returned, the potential series of the earth and of
\* every junction connected to it has one sample per sample of circuit.t.
C4_PotentialPerSample ==
    pc = "done" =>
        \A j \in ConnectedTo({Earth}) : Len(potential[j]) = Len(t)

\* ------------------------------------------------------------------------- C5
\* C5: when solve has returned, every sample of the earth's potential series
\* is zero.
C5_EarthZero ==
    pc = "done" =>
        \A i \in 1..Len(potential[Earth]) : potential[Earth][i] = 0

\* ------------------------------------------------------------------------- C6
\* The serial numbers of the callbacks registered for a time.
RegisteredAt(time) == {events[time][i].id : i \in 1..Len(events[time])}

\* The positions of the trace at which a callback of a time was invoked.
CallsAt(time) ==
    {p \in 1..Len(trace) : trace[p].op = "call" /\ trace[p].time = time}

\* The callbacks of the sub-interval k have run: solve has reclassified
\* after it.
Reclassified(k) ==
    \E p \in 1..Len(trace) : trace[p].op = "classify" /\ trace[p].n = k

\* C6: the callbacks registered for a time T are invoked after the samples
\* of the sub-interval ending at T are stored and before solve classifies
\* again, each exactly once, in the order of their registration.
C6_CallbackOrder ==
    /\ \A p \in 1..Len(trace) :
         trace[p].op = "call" =>
           /\ p > 1
           /\ \/ /\ trace[p - 1].op = "store"
                 /\ trace[p - 1].time = trace[p].time
              \/ /\ trace[p - 1].op = "call"
                 /\ trace[p - 1].time = trace[p].time
                 /\ trace[p - 1].n < trace[p].n
           /\ trace[p].n \in RegisteredAt(trace[p].time)
    /\ \A k \in 1..Len(split) :
         (~split[k].final /\ Reclassified(k)) =>
           /\ {trace[p].n : p \in CallsAt(split[k].end)}
                = RegisteredAt(split[k].end)
           /\ Cardinality(CallsAt(split[k].end))
                = Cardinality(RegisteredAt(split[k].end))

\* solve returned after it invoked two callbacks registered for one time.
C6_Witness ==
    /\ pc = "done"
    /\ \E time \in Times :
         /\ Len(events[time]) = 2
         /\ Cardinality(CallsAt(time)) = 2

\* ------------------------------------------------------------------------- C7
\* The distinct event times at or before end_time, ascending.
Cuts == Sorted({time \in Times : events[time] # <<>> /\ time <= end_time})

SplitRan == \E p \in 1..Len(trace) : trace[p].op = "split"

\* C7: for every event schedule, __split_events yields contiguous
\* sub-intervals that start at 0, are cut at the distinct event times at or
\* before end_time in ascending order, and end with the sub-interval that
\* ends at end_time and runs the potential calls; no callback registered
\* for a time after end_time is invoked.
C7_Partition ==
    SplitRan =>
        /\ Len(split) = Len(Cuts) + 1
        /\ split[1].start = 0
        /\ \A k \in 1..Len(split) :
             /\ split[k].end = (IF k <= Len(Cuts) THEN Cuts[k] ELSE end_time)
             /\ k > 1 => split[k].start = split[k - 1].end
             /\ split[k].final <=> k = Len(split)
        /\ \A p \in 1..Len(trace) :
             trace[p].op = "call" => trace[p].time <= end_time

\* ------------------------------------------------------------------------- C8
\* The number of samples circuit.t held when the sub-interval k ended.
EndOffset(k) == IF k < Len(offsets) THEN offsets[k + 1] ELSE Len(t)

\* C8: for every wire of the circuit, the first charge sample of a
\* sub-interval equals the last charge sample stored before it, whatever the
\* wire's classification on either side; the first sample of all is the
\* capacitor's init_charge.
C8_ChargeContinuity ==
    SamplesStored =>
        \A k \in 1..Len(offsets) :
          EndOffset(k) > offsets[k] =>
            \A w \in cwires :
              q[w][offsets[k] + 1] =
                 (IF offsets[k] = 0 THEN InitCharge(w) ELSE q[w][offsets[k]])

\* solve returned from two sub-intervals with samples; a wire that was
\* integrated in the first and is null in the second ended the first with a
\* charge other than its init_charge.
C8_Witness ==
    /\ pc = "done"
    /\ Len(offsets) >= 2
    /\ offsets[2] > 0
    /\ Len(t) > offsets[2]
    /\ \E w \in cwires :
         /\ w \in null_wires
         /\ q[w][offsets[2]] # InitCharge(w)
         /\ q[w][offsets[2] + 1] = q[w][offsets[2]]

\* ------------------------------------------------------------------------- C9
\* C9: for a fixed topology and fixed switch states, every iteration order
\* of the junction set and of the wire sets yields the same number of
\* first-law equations and the same number of second-law equations.
C9_OrderIndependent ==
    pc = "assembled" =>
        /\ \A junction_order \in Orders(cjunctions) :
             Len(first_law_wires(junction_order)) = Len(first_law)
        /\ \A order \in Orders(made) :
             Len(second_law_wires(order)) = Len(second_law)

\* ------------------------------------------------------------------------ C10
\* C10: after any sequence of Circuit.connect calls, a junction's wire set
\* holds a wire if and only if the junction is one of the wire's two
\* terminals, and the call raised CircuitError if one of its wires already
\* had two terminals.
C10_Bidirectional ==
    /\ \A j \in Junctions : \A w \in made :
         w \in jwires[j] <=> j \in {starting_junction[w], ending_junction[w]}
    /\ lastConnect.twoTerminals => lastConnect.raised

\* ------------------------------------------------------------------------ C11
\* C11: when the samples of a sub-interval are stored, every wire that was
\* classified null at the start of the sub-interval has, at each sample of
\* the sub-interval, the charge it had last (its capacitor's init_charge
\* when it had no sample) and a current of zero.
C11_NullHeld ==
    pc = "callbacks" =>
        \A w \in null_wires :
          /\ Len(q[w]) = Len(t)
          /\ Len(dq_dt[w]) = Len(t)
          /\ \A i \in (offsets[idx] + 1)..Len(t) :
               /\ q[w][i] = (IF offsets[idx] = 0 THEN InitCharge(w)
                             ELSE q[w][offsets[idx]])
               /\ dq_dt[w][i] = 0

\* A second sub-interval with samples is stored; a null wire of it was
\* integrated before and carries a charge other than its init_charge.
C11_Witness ==
    /\ pc = "callbacks"
    /\ idx >= 2
    /\ offsets[idx] > 0
    /\ Len(t) > offsets[idx]
    /\ \E w \in null_wires :
         /\ q[w][offsets[idx]] # InitCharge(w)
         /\ q[w][Len(t)] = q[w][offsets[idx]]
         /\ \E i \in 1..offsets[idx] : dq_dt[w][i] # 0

\* ------------------------------------------------------------------------ C12
\* Every registered event time is inside [0, end_time].
EventsInside ==
    \A time \in Times : events[time] # <<>> => time <= end_time

\* C12: for every resolution and every event schedule with its times inside
\* [0, end_time], circuit.t holds exactly `resolution` samples when solve has
\* returned.
C12_SampleBudget ==
    (pc = "done" /\ EventsInside) => Len(t) = resolution

\* ------------------------------------------------------------------------ C14
\* What a wire must be, with the present switch states, to be classified
\* effective: closed, with both terminals at junctions that hold another wire.
Usable(w) ==
    /\ closed[w]
    /\ Cardinality(JWires(starting_junction[w])) >= 2
    /\ Cardinality(JWires(ending_junction[w])) >= 2

\* The position of the last step of the trace with the given op (0: none).
LastStep(op) ==
    IF \E p \in 1..Len(trace) : trace[p].op = op
    THEN CHOOSE p \in 1..Len(trace) :
           /\ trace[p].op = op
           /\ \A r \in (p + 1)..Len(trace) : trace[r].op # op
    ELSE 0

\* C14: when the equations of a sub-interval are built and used, solve has
\* classified after the last callback it ran, the classification is that of
\* the present switch states, and the equations hold effective wires of
\* that classification only.
C14_FreshClassification ==
    pc \in {"assemble", "integrate"} =>
        /\ LastStep("classify") > LastStep("call")
        /\ \A w \in effective_wires : Usable(w)
        /\ \A w \in cwires : ~closed[w] => w \in null_wires
        /\ pc = "integrate" =>
             /\ \A i \in 1..Len(first_law) :
                  \A w \in WiresOf(first_law[i]) : closed[w]
             /\ \A i \in 1..Len(second_law) :
                  \A w \in WiresOf(second_law[i]) : closed[w]

\* The equations of a second sub-interval are built after a callback opened
\* a wire that was integrated in the first.
C14_Witness ==
    /\ pc = "integrate"
    /\ idx >= 2
    /\ LastStep("call") > 0
    /\ \E w \in null_wires :
         /\ ~closed[w]
         /\ \E i \in 1..Len(dq_dt[w]) : dq_dt[w][i] # 0

\* ------------------------------------------------------------------------ C15
\* C15: after second-law selection, every effective wire is in at least one
\* accepted loop, and every accepted loop holds a wire that no loop
\* accepted before it holds.
C15_LoopCover ==
    pc = "assembled" =>
        /\ \A w \in effective_wires :
             \E i \in 1..Len(second_law) : w \in WiresOf(second_law[i])
        /\ \A i \in 1..Len(second_law) :
             \E w \in WiresOf(second_law[i]) :
               \A k \in 1..(i - 1) : w \notin WiresOf(second_law[k])

\* Three effective wires covered by two accepted loops.
C15_Witness ==
    /\ pc = "assembled"
    /\ Cardinality(effective_wires) = 3
    /\ Len(second_law) = 2
    /\ WiresOf(second_law[1]) # WiresOf(second_law[2])

\* ------------------------------------------------------------------------ C13
\* The wiring is one ring of closed wires: every wire is closed and every
\* junction of the circuit has exactly two wires.
IsClosedRing ==
    /\ Cardinality(cwires) >= 2
    /\ \A w \in cwires : closed[w]
    /\ \A j \in cjunctions : Cardinality(JWires(j)) = 2

\* The junction at which a walk along the wires ws, that runs through ws[1]
\* from its starting junction to its ending junction, enters ws[i].
RECURSIVE Entered(_, _)
Entered(ws, i) ==
    IF i = 1 THEN starting_junction[ws[1]]
    ELSE LET before == Entered(ws, i - 1)
         IN IF starting_junction[ws[i - 1]] = before
            THEN ending_junction[ws[i - 1]]
            ELSE starting_junction[ws[i - 1]]

\* C13: on a ring of n >= 2 closed wires in which every junction has exactly
\* two wires, the loop finder seeded with any wire of the ring, under every
\* iteration order, raises nothing and returns exactly one loop; the loop
\* holds each of the n wires once, starts with the seed at sign +1, and
\* gives every other wire +1 if the walk enters it at its starting junction
\* and -1 if it enters it at its ending junction.
C13_RingLoop ==
    IsClosedRing =>
        \A seed \in cwires :
          \A order \in Orders(made) :
            LET found == get_loops(seed, order)
            IN /\ ~found.err
               /\ Len(found.loops) = 1
               /\ LET loop == found.loops[1]
                  IN /\ Len(loop.wires) = Cardinality(cwires)
                     /\ Len(loop.signs) = Len(loop.wires)
                     /\ WiresOf(loop) = cwires
                     /\ loop.wires[1] = seed
                     /\ loop.signs[1] = 1
                     /\ \A i \in 2..Len(loop.wires) :
                          loop.signs[i] =
                            (IF Entered(loop.wires, i)
                                  = starting_junction[loop.wires[i]]
                             THEN 1 ELSE -1)

\* A ring of three or more wires, classified, in which some wire was swapped:
\* a loop enters one wire at its starting junction and another at its ending
\* junction.
C13_Witness ==
    /\ pc = "first_law"
    /\ IsClosedRing
    /\ Cardinality(cwires) >= 3
    /\ effective_wires = cwires
    /\ \E seed \in cwires :
         LET found == get_loops(seed, SomeOrder)
         IN /\ Len(found.loops) = 1
            /\ \E i, k \in 2..Len(found.loops[1].wires) :
                 /\ found.loops[1].signs[i] = 1
                 /\ found.loops[1].signs[k] = -1

\* ------------------------------------------------------------------------ C16
\* The wires of a junction that are not null, and the junction's candidate
\* set.
JunctionWires(junction) == JWires(junction) \ null_wires

Candidate(junction) == EffectiveJunctionWires(JunctionWires(junction))

\* Whether the junction at position p of junction_order gets an equation:
\* the loop over the first p junctions appends one more equation than the
\* loop over the first p - 1.
Accepted(junction_order, p) ==
    Len(first_law_wires(SubSeq(junction_order, 1, p)))
        = Len(first_law_wires(SubSeq(junction_order, 1, p - 1))) + 1

Skipped(junction_order, p) ==
    Len(first_law_wires(SubSeq(junction_order, 1, p)))
        = Len(first_law_wires(SubSeq(junction_order, 1, p - 1)))

\* The candidate sets accepted before position p.
PreviouslyAccepted(junction_order, p) ==
    {Candidate(junction_order[k]) :
        k \in {k \in 1..(p - 1) : Accepted(junction_order, k)}}

\* The symmetric difference of all the sets in T.
RECURSIVE SymmetricDifferenceAll(_)
SymmetricDifferenceAll(T) ==
    IF T = {} THEN {}
    ELSE LET x == CHOOSE x \in T : TRUE
         IN SymmetricDifference(x, SymmetricDifferenceAll(T \ {x}))

\* The sets of P and the symmetric differences of two of them.
PairwiseDerived(P) ==
    P \cup {SymmetricDifference(x, y) : x, y \in P}

\* The symmetric differences of one or more sets of P.
Derived(P) ==
    {SymmetricDifferenceAll(T) : T \in (SUBSET P) \ {{}}}

\* C16 as stated: in first-law selection a junction's candidate set is
\* skipped exactly when it equals a previously accepted candidate set or the
\* symmetric difference of two previously accepted sets; every other
\* candidate of a junction with two or more wires that are not null is
\* accepted and produces one equation.
C16_PairwiseSkip ==
    pc = "first_law" =>
        \A junction_order \in Orders(cjunctions) :
          \A p \in 1..Len(junction_order) :
            Cardinality(JunctionWires(junction_order[p])) >= 2 =>
              /\ Skipped(junction_order, p) <=>
                   Candidate(junction_order[p]) \in
                     PairwiseDerived(PreviouslyAccepted(junction_order, p))
              /\ Accepted(junction_order, p) <=>
                   Candidate(junction_order[p]) \notin
                     PairwiseDerived(PreviouslyAccepted(junction_order, p))

\* C16, amended: in first-law selection a junction's candidate set is
\* skipped exactly when it is the symmetric difference of one or more
\* previously accepted candidate sets (one set: it equals that set); every
\* other candidate of a junction with two or more wires that are not null
\* is accepted and produces one equation.
C16_DerivedSkip ==
    pc = "first_law" =>
        \A junction_order \in Orders(cjunctions) :
          \A p \in 1..Len(junction_order) :
            Cardinality(JunctionWires(junction_order[p])) >= 2 =>
              /\ Skipped(junction_order, p) <=>
                   Candidate(junction_order[p]) \in
                     Derived(PreviouslyAccepted(junction_order, p))
              /\ Accepted(junction_order, p) <=>
                   Candidate(junction_order[p]) \notin
                     Derived(PreviouslyAccepted(junction_order, p))

\* A classified ring in which the last junction is skipped although its
\* candidate set is neither an accepted set nor the symmetric difference of
\* two: it is the symmetric difference of three.
C16_Witness ==
    /\ pc = "first_law"
    /\ effective_wires = cwires
    /\ \E junction_order \in Orders(cjunctions) :
         \E p \in 1..Len(junction_order) :
           /\ Cardinality(JunctionWires(junction_order[p])) >= 2
           /\ Skipped(junction_order, p)
           /\ Cardinality(PreviouslyAccepted(junction_order, p)) = 3
           /\ Candidate(junction_order[p]) \notin
                PairwiseDerived(PreviouslyAccepted(junction_order, p))
           /\ Candidate(junction_order[p]) =
                SymmetricDifferenceAll(PreviouslyAccepted(junction_order, p))

====
